---- MODULE Spec2Model ----
(***************************************************************************)
(* Model of src/utils.py: the three root finders bisect, newton_raphson    *)
(* and rootwalk, with the two warnings and the AsymtoteException.          *)
(*                                                                         *)
(* Numbers are exact rationals <<num, den>> (den > 0, lowest terms).  The  *)
(* inputs are chosen so that every value the code computes within the      *)
(* bounds is exactly representable, i.e. the model is the code's float     *)
(* arithmetic in the range where it does not round.                        *)
(***************************************************************************)
EXTENDS Integers, Sequences, FiniteSets, TLC

\* ---------------------------------------------------------------- bounds
MaxIter  == 3      \* max_iter is drawn from 0..MaxIter
MaxSteps == 3      \* N is drawn from 0..MaxSteps
MaxRoots == 3      \* n is drawn from 0..MaxRoots
MaxPoint == 2      \* interval bounds and initial guesses are integers in -1..MaxPoint

\* ------------------------------------------------------ exact arithmetic
RECURSIVE Gcd(_, _)
Gcd(p, q) == IF q = 0 THEN p ELSE Gcd(q, p % q)

AbsInt(k) == IF k < 0 THEN -k ELSE k

\* the rational p/q, q # 0, in lowest terms with a positive denominator
Q(p, q) ==
    LET g == Gcd(AbsInt(p), AbsInt(q))
        s == IF q < 0 THEN -1 ELSE 1
    IN  <<(s * p) \div g, (s * q) \div g>>

FromInt(k) == <<k, 1>>
Zero == FromInt(0)
Neg(u) == <<-u[1], u[2]>>
Add(u, v) == Q(u[1] * v[2] + v[1] * u[2], u[2] * v[2])
Sub(u, v) == Add(u, Neg(v))
Mul(u, v) == Q(u[1] * v[1], u[2] * v[2])
\* u / v for v # 0; the callers model the ZeroDivisionError of v = 0
Div(u, v) == Q(u[1] * v[2], u[2] * v[1])
Lt(u, v) == u[1] * v[2] < v[1] * u[2]
AbsQ(u) == <<AbsInt(u[1]), u[2]>>

\* float('nan'), the filler of the result list
NaN == <<0, 0>>
\* a local that was never assigned / no value returned
Unbound == <<1, 0>>

\* ------------------------------------------- the caller-supplied functions
\* functions handed to bisect and rootwalk
ScanFns == {"id", "lin", "step", "pole", "zig"}
\* monotonic ones among them
MonotonicFns == {"id", "lin", "step"}
\* the one with a vertical asymptote (at sqrt 2) and no root
PoleFns == {"pole"}

\* f(x); zig is | |6x - 6| - 3 | - 2, with the roots 1/6, 5/6, 7/6, 11/6
F(fid, x) ==
    CASE fid = "id"   -> x
      [] fid = "lin"  -> Sub(Mul(FromInt(3), x), FromInt(1))
      [] fid = "step" -> IF Lt(x, Q(1, 3)) THEN FromInt(-1) ELSE FromInt(1)
      [] fid = "pole" -> Div(FromInt(1), Sub(Mul(x, x), FromInt(2)))
      [] fid = "zig"  -> Sub(AbsQ(Sub(AbsQ(Sub(Mul(FromInt(6), x), FromInt(6))),
                                      FromInt(3))), FromInt(2))
      [] fid = "sq"   -> Mul(x, x)
      [] fid = "sqp1" -> Add(Mul(x, x), FromInt(1))
      [] fid = "cyc"  -> Add(Sub(Mul(x, Mul(x, x)), Mul(FromInt(2), x)), FromInt(2))

\* df(x), for the functions handed to newton_raphson
DF(fid, x) ==
    CASE fid = "id"   -> FromInt(1)
      [] fid = "lin"  -> FromInt(3)
      [] fid = "sq"   -> Mul(FromInt(2), x)
      [] fid = "sqp1" -> Mul(FromInt(2), x)
      [] fid = "cyc"  -> Sub(Mul(FromInt(3), Mul(x, x)), FromInt(2))

\* error margins eps > 0
EpsValues == {Q(1, 10), Q(1, 2), Q(2, 1)}

Points == (-1) .. MaxPoint

\* (f, x0) pairs handed to newton_raphson
NewtonInputs ==
    ({"id", "lin", "sq"} \X Points)
        \cup ({"sqp1"} \X {-1, 0, 1})
        \cup ({"cyc"} \X {0, 1})

\* --------------------------------------------------------------- state
VARIABLES
    entry,      \* the function the caller invoked
    f, eps, max_iter,   \* arguments shared by the three entry points
    \* bisect's frame
    a, b, m, it, bpc, bret, a0, b0,
    \* newton_raphson's frame; xs is the initial guess followed by the iterates
    x0, nit, npc, nret, xs,
    \* rootwalk's frame
    ra, rb, N, n, dx, x, i, r, k, wpc, wret,
    \* the warnings module: warnings emitted so far
    cw, iw,
    \* observation: f evaluations, sub-intervals tested, bisect calls,
    \* values bisect returned to rootwalk
    evals, probes, bcalls, found

bvars == <<a, b, m, it, bpc, bret, a0, b0>>
nvars == <<x0, nit, npc, nret, xs>>
wvars == <<ra, rb, N, n, dx, x, i, r, k, wpc, wret>>
args  == <<entry, f, eps, max_iter>>
obs   == <<evals, probes, bcalls, found>>
vars  == <<args, bvars, nvars, wvars, cw, iw, obs>>

NoRet == [kind |-> "none", val |-> Unbound]
Return(v) == [kind |-> "return", val |-> v]
Raise(e) == [kind |-> e, val |-> Unbound]

BisectIdle ==
    /\ a = Zero /\ b = Zero /\ a0 = Zero /\ b0 = Zero
    /\ m = Unbound /\ it = 0 /\ bpc = "idle" /\ bret = NoRet
NewtonIdle ==
    /\ x0 = Zero /\ nit = 0 /\ npc = "idle" /\ nret = NoRet /\ xs = <<>>
RootwalkIdle ==
    /\ ra = Zero /\ rb = Zero /\ N = 0 /\ n = 0 /\ dx = Unbound /\ x = Unbound
    /\ i = 0 /\ r = <<>> /\ k = 0 /\ wpc = "idle" /\ wret = NoRet

\* ---------------------------------------------------------------- bisect
\* m = (a + b)/2
Midpoint(lo, hi) == Div(Add(lo, hi), FromInt(2))

\* bug: the absolute value is missing
ConvergedNoAbs(fid, y, e) == Lt(F(fid, y), e)

\* abs(f(x)) < eps
Converged(fid, y, e) == Lt(AbsQ(F(fid, y)), e)

\* f(a)*f(m) < 0
RootInLeft(fid, lo, mid) == Lt(Mul(F(fid, lo), F(fid, mid)), Zero)

\* bug: the product is compared with eps instead of 1/eps
IsAsymtoteEps(fid, lo, hi, e) ==
    Lt(e, Neg(Mul(F(fid, lo), F(fid, hi))))

\* -f(a)*f(b) > 1/eps
IsAsymtote(fid, lo, hi, e) ==
    Lt(Div(FromInt(1), e), Neg(Mul(F(fid, lo), F(fid, hi))))

\* bug: the halves are swapped
NarrowSwapped(fid, lo, hi, mid) ==
    IF RootInLeft(fid, lo, mid) THEN <<mid, hi>> ELSE <<lo, mid>>

\* the interval after an iteration whose midpoint did not converge
Narrow(fid, lo, hi, mid) ==
    IF RootInLeft(fid, lo, mid) THEN <<lo, mid>> ELSE <<mid, hi>>

\* one pass of the for loop
BisectIter ==
    /\ bpc = "loop"
    /\ it < max_iter
    /\ LET mid == Midpoint(a, b) IN
        /\ m' = mid
        /\ it' = it + 1
        /\ IF Converged(f, mid, eps)
           THEN /\ bret' = Return(mid)
                /\ bpc' = "done"
                /\ evals' = evals + 1
                /\ UNCHANGED <<a, b>>
           ELSE /\ a' = Narrow(f, a, b, mid)[1]
                /\ b' = Narrow(f, a, b, mid)[2]
                /\ evals' = evals + 3
                /\ UNCHANGED <<bpc, bret>>
    /\ UNCHANGED <<args, a0, b0, nvars, wvars, cw, iw, probes, bcalls, found>>

\* bug: the best-effort value is returned without the warning
AfterLoopSilent(fid, lo, hi, mid, e) ==
    IF mid = Unbound
    THEN [ret |-> Raise("UnboundLocalError"), warned |-> 0, evals |-> 2]
    ELSE IF IsAsymtote(fid, lo, hi, e)
         THEN [ret |-> Raise("AsymtoteException"), warned |-> 0, evals |-> 4]
         ELSE [ret |-> Return(mid), warned |-> 0, evals |-> 2]

\* what the code after the loop does: the outcome and the warnings it adds
AfterLoop(fid, lo, hi, mid, e) ==
    IF mid = Unbound
    THEN [ret |-> Raise("UnboundLocalError"), warned |-> 0, evals |-> 2]
    ELSE IF IsAsymtote(fid, lo, hi, e)
         THEN [ret |-> Raise("AsymtoteException"), warned |-> 0, evals |-> 4]
         ELSE [ret |-> Return(mid), warned |-> 1, evals |-> 3]

\* the loop is exhausted
BisectExhaust ==
    /\ bpc = "loop"
    /\ it = max_iter
    /\ LET out == AfterLoop(f, a, b, m, eps) IN
        /\ bret' = out.ret
        /\ cw' = cw + out.warned
        /\ evals' = evals + out.evals
    /\ bpc' = "done"
    /\ UNCHANGED <<args, a, b, m, it, a0, b0, nvars, wvars, iw, probes, bcalls, found>>

InitBisect ==
    /\ entry = "bisect"
    /\ f \in ScanFns /\ eps \in EpsValues /\ max_iter \in 0 .. MaxIter
    /\ \E lo \in Points, hi \in Points :
        /\ a = FromInt(lo) /\ b = FromInt(hi)
        /\ a0 = a /\ b0 = b
    /\ m = Unbound /\ it = 0 /\ bpc = "loop" /\ bret = NoRet
    /\ NewtonIdle /\ RootwalkIdle
    /\ cw = 0 /\ iw = 0
    /\ evals = 0 /\ probes = 0 /\ bcalls = 0 /\ found = <<>>

\* -------------------------------------------------------- newton_raphson
\* bug: the Newton step is added
NewtonUpdatePlus(fid, y) == Add(y, Div(F(fid, y), DF(fid, y)))

\* x0 - f(x0)/df(x0), for df(x0) # 0
NewtonUpdate(fid, y) == Sub(y, Div(F(fid, y), DF(fid, y)))

\* df(x0) = 0: the division raises ZeroDivisionError
DivisionFaults(fid, y) == DF(fid, y) = Zero

\* one pass of the for loop
NewtonIter ==
    /\ npc = "loop"
    /\ nit < max_iter
    /\ IF DivisionFaults(f, x0)
       THEN /\ nret' = Raise("ZeroDivisionError")
            /\ npc' = "done"
            /\ evals' = evals + 1
            /\ UNCHANGED <<x0, nit, xs>>
       ELSE LET y == NewtonUpdate(f, x0) IN
            /\ x0' = y
            /\ nit' = nit + 1
            /\ xs' = Append(xs, y)
            /\ evals' = evals + 2
            /\ IF Converged(f, y, eps)
               THEN nret' = Return(y) /\ npc' = "done"
               ELSE UNCHANGED <<nret, npc>>
    /\ UNCHANGED <<args, bvars, wvars, cw, iw, probes, bcalls, found>>

\* the loop is exhausted
NewtonExhaust ==
    /\ npc = "loop"
    /\ nit = max_iter
    /\ cw' = cw + 1
    /\ nret' = Return(x0)
    /\ npc' = "done"
    /\ evals' = evals + 1
    /\ UNCHANGED <<args, bvars, x0, nit, xs, wvars, iw, probes, bcalls, found>>

InitNewton ==
    /\ entry = "newton_raphson"
    /\ eps \in EpsValues /\ max_iter \in 0 .. MaxIter
    /\ \E p \in NewtonInputs : f = p[1] /\ x0 = FromInt(p[2])
    /\ nit = 0 /\ npc = "loop" /\ nret = NoRet /\ xs = <<x0>>
    /\ BisectIdle /\ RootwalkIdle
    /\ cw = 0 /\ iw = 0
    /\ evals = 0 /\ probes = 0 /\ bcalls = 0 /\ found = <<>>

\* -------------------------------------------------------------- rootwalk
\* f(x)*f(x + dx) < 0
SignChange(fid, y, step) ==
    Lt(Mul(F(fid, y), F(fid, Add(y, step))), Zero)

\* bug: nothing is caught
HandledNothing(kind) == FALSE

\* except AsymtoteException: pass
Handled(kind) == kind = "AsymtoteException"

\* bug: the early return is missing
FoundAllNever(cnt, want) == FALSE

\* if i == n
FoundAll(cnt, want) == cnt = want

\* bug: every root is written to the first slot
StoreFirst(lst, idx, v) == [lst EXCEPT ![1] = v]

\* r[i] = ... (0-based i) on the list r
Store(lst, idx, v) == [lst EXCEPT ![idx + 1] = v]

\* [float('nan')] * n
NanList(len) == [j \in 1 .. len |-> NaN]

\* dx = (b - a)/N; x = a; i = 0; r = [nan]*n
RootwalkEnter ==
    /\ wpc = "enter"
    /\ IF N = 0
       THEN /\ wret' = Raise("ZeroDivisionError")
            /\ wpc' = "done"
            /\ UNCHANGED <<dx, x, i, r>>
       ELSE /\ dx' = Div(Sub(rb, ra), FromInt(N))
            /\ x' = ra
            /\ i' = 0
            /\ r' = NanList(n)
            /\ wpc' = "loop"
            /\ UNCHANGED wret
    /\ UNCHANGED <<args, bvars, nvars, ra, rb, N, n, k, cw, iw, obs>>

\* the end of a pass: return when all roots are found, else step on
EndPass(cnt, lst) ==
    IF FoundAll(cnt, n)
    THEN /\ wret' = Return(lst)
         /\ wpc' = "done"
         /\ UNCHANGED <<x, k>>
    ELSE /\ x' = Add(x, dx)
         /\ k' = k + 1
         /\ wpc' = "loop"
         /\ UNCHANGED wret

\* a pass of the for loop up to the call of bisect
RootwalkTest ==
    /\ wpc = "loop"
    /\ k < N
    /\ probes' = probes + 1
    /\ evals' = evals + 2
    /\ IF SignChange(f, x, dx)
       THEN /\ a' = x /\ b' = Add(x, dx)
            /\ a0' = x /\ b0' = Add(x, dx)
            /\ m' = Unbound /\ it' = 0 /\ bpc' = "loop" /\ bret' = NoRet
            /\ bcalls' = bcalls + 1
            /\ wpc' = "call"
            /\ UNCHANGED <<x, k, wret>>
       ELSE /\ EndPass(i, r)
            /\ UNCHANGED <<bvars, bcalls>>
    /\ UNCHANGED <<args, nvars, ra, rb, N, n, dx, i, r, cw, iw, found>>

\* bisect has ended: the rest of the pass
RootwalkResume ==
    /\ wpc = "call"
    /\ bpc = "done"
    /\ bpc' = "idle"
    /\ IF bret.kind = "return"
       THEN IF i >= Len(r)
            THEN /\ wret' = Raise("IndexError")
                 /\ wpc' = "done"
                 /\ UNCHANGED <<x, k, i, r, found>>
            ELSE /\ r' = Store(r, i, bret.val)
                 /\ i' = i + 1
                 /\ found' = Append(found, bret.val)
                 /\ EndPass(i + 1, r')
       ELSE IF Handled(bret.kind)
            THEN /\ EndPass(i, r)
                 /\ UNCHANGED <<i, r, found>>
            ELSE /\ wret' = Raise(bret.kind)
                 /\ wpc' = "done"
                 /\ UNCHANGED <<x, k, i, r, found>>
    /\ UNCHANGED <<args, a, b, m, it, bret, a0, b0, nvars, ra, rb, N, n, dx,
                   cw, iw, evals, probes, bcalls>>

\* the loop is exhausted: incompletesolution(a, b, i, n); return r
RootwalkFinish ==
    /\ wpc = "loop"
    /\ k = N
    /\ iw' = iw + 1
    /\ wret' = Return(r)
    /\ wpc' = "done"
    /\ UNCHANGED <<args, bvars, nvars, ra, rb, N, n, dx, x, i, r, k, cw, obs>>

InitRootwalk ==
    /\ entry = "rootwalk"
    /\ f \in ScanFns /\ eps \in EpsValues /\ max_iter \in 0 .. MaxIter
    /\ \E lo \in Points, hi \in Points :
        /\ lo < hi
        /\ ra = FromInt(lo) /\ rb = FromInt(hi)
    /\ N \in 0 .. MaxSteps /\ n \in 0 .. MaxRoots
    /\ dx = Unbound /\ x = Unbound /\ i = 0 /\ r = <<>> /\ k = 0
    /\ wpc = "enter" /\ wret = NoRet
    /\ BisectIdle /\ NewtonIdle
    /\ cw = 0 /\ iw = 0
    /\ evals = 0 /\ probes = 0 /\ bcalls = 0 /\ found = <<>>

Init == InitBisect \/ InitNewton \/ InitRootwalk

Next ==
    \/ BisectIter
    \/ BisectExhaust
    \/ NewtonIter
    \/ NewtonExhaust
    \/ RootwalkEnter
    \/ RootwalkTest
    \/ RootwalkResume
    \/ RootwalkFinish

Spec == Init /\ [][Next]_vars

\* ================================================================ claims
\* u <= v on rationals
Leq(u, v) == u[1] * v[2] <= v[1] * u[2]

\* bisect was called directly and has ended
BisectEnded == entry = "bisect" /\ bpc = "done"

\* the bounds passed to bisect are a bracketing interval: a < b, f(a)*f(b) < 0
Bracketed == Lt(a0, b0) /\ Lt(Mul(F(f, a0), F(f, b0)), Zero)

\* the call used up all max_iter iterations and no midpoint met eps
LoopExhausted ==
    /\ it = max_iter
    /\ ~(bret.kind = "return" /\ Lt(AbsQ(F(f, bret.val)), eps))

\* C1: a bisect call that exhausts its loop either fails with the Asymptote
\* condition and no notification (when -f(a)*f(b) > 1/eps at the final bounds)
\* or returns the last midpoint with exactly one convergence-shortfall
\* notification; a return without notification has |f(m)| < eps.
C1_ExhaustedOutcome ==
    BisectEnded =>
        /\ LoopExhausted =>
            IF Lt(Div(FromInt(1), eps), Neg(Mul(F(f, a), F(f, b))))
            THEN bret = Raise("AsymtoteException") /\ cw = 0
            ELSE bret.kind = "return" /\ m # Unbound /\ bret.val = m /\ cw = 1
        /\ (bret.kind = "return" /\ cw = 0) => Lt(AbsQ(F(f, bret.val)), eps)

\* C2 as stated, taken for max_iter >= 1 only: for monotonic f with a sign
\* change on [a,b] bisect returns m with |f(m)| < eps and a <= m <= b, whatever
\* eps and max_iter are.
C2_AlwaysConverges ==
    (BisectEnded /\ f \in MonotonicFns /\ Bracketed /\ max_iter >= 1) =>
        /\ bret.kind = "return"
        /\ Lt(AbsQ(F(f, bret.val)), eps)
        /\ Leq(a0, bret.val) /\ Leq(bret.val, b0)

\* C2 amended: for monotonic f with a sign change on [a,b], every value m that
\* bisect returns satisfies a <= m <= b, and |f(m)| < eps unless all max_iter
\* iterations were used up, in which case m comes with one shortfall
\* notification.
C2_ReturnedInsideAndConvergedOrWarned ==
    (BisectEnded /\ f \in MonotonicFns /\ Bracketed /\ bret.kind = "return") =>
        /\ Leq(a0, bret.val) /\ Leq(bret.val, b0)
        /\ it <= max_iter
        /\ \/ Lt(AbsQ(F(f, bret.val)), eps) /\ cw = 0
           \/ it = max_iter /\ cw = 1

\* a monotonic bracketed call that converged after more than one iteration
C2_Witness ==
    /\ BisectEnded /\ f \in MonotonicFns /\ Bracketed
    /\ bret.kind = "return" /\ cw = 0 /\ it > 1

\* C6, the bisect half and the rootwalk half: max_iter = 0 makes bisect end by
\* returning a value with a shortfall notification or by the Asymptote
\* condition, after at most the evaluations of the asymptote test and of the
\* message; N = 0 makes rootwalk return n sentinels with the
\* incomplete-solution notification without evaluating f.
C6_ZeroBoundary ==
    /\ (BisectEnded /\ max_iter = 0) =>
        /\ \/ bret.kind = "return" /\ cw = 1
           \/ bret.kind = "AsymtoteException" /\ cw = 0
        /\ evals <= 4
    /\ (entry = "rootwalk" /\ N = 0 /\ wpc = "done") =>
        /\ wret = Return([j \in 1 .. n |-> NaN])
        /\ iw = 1
        /\ evals = 0

\* the interval holds the pole of f and no root
PoleBracketed == f \in PoleFns /\ Bracketed

\* C7 as stated: on an interval holding a pole and no root, bisect signals the
\* Asymptote condition for every eps > 0 and max_iter >= 1.
C7_AlwaysAsymtote ==
    (BisectEnded /\ PoleBracketed /\ max_iter >= 1) =>
        bret.kind = "AsymtoteException"

\* C7 amended: on such an interval with max_iter >= 1 bisect signals the
\* Asymptote condition exactly when no midpoint of the max_iter iterations met
\* eps and the final bounds satisfy -f(a)*f(b) > 1/eps; in every other case it
\* returns a midpoint (with a shortfall notification unless |f(m)| < eps).
C7_AsymtoteIffTestPasses ==
    (BisectEnded /\ PoleBracketed /\ max_iter >= 1) =>
        /\ bret.kind \in {"return", "AsymtoteException"}
        /\ bret.kind = "AsymtoteException" <=>
            /\ it = max_iter
            /\ ~Lt(AbsQ(F(f, m)), eps)
            /\ Lt(Div(FromInt(1), eps), Neg(Mul(F(f, a), F(f, b))))
        /\ bret.kind = "return" =>
            /\ bret.val = m
            /\ cw = (IF Lt(AbsQ(F(f, m)), eps) THEN 0 ELSE 1)

\* a call over the pole that ended with the Asymptote condition
C7_Witness ==
    /\ BisectEnded /\ PoleBracketed /\ max_iter >= 1
    /\ bret.kind = "AsymtoteException"

\* C10: from a bracketing interval, every iteration that does not return keeps
\* f(a)*f(b) < 0, replaces exactly one bound by the midpoint (halving the
\* width) and stays inside the initial interval; so do all midpoints and any
\* returned value.
C10_Bracketing ==
    /\ [][(bpc = "loop" /\ bpc' = "loop" /\ it' = it + 1 /\ Bracketed) =>
            /\ Lt(Mul(F(f, a'), F(f, b')), Zero)
            /\ \/ a' = a /\ b' = m' /\ b' # b
               \/ a' = m' /\ b' = b /\ a' # a
            /\ Mul(FromInt(2), Sub(b', a')) = Sub(b, a)
            /\ Leq(a0, a') /\ Lt(a', b') /\ Leq(b', b0)]_vars
    /\ []((Bracketed /\ m # Unbound) => (Leq(a0, m) /\ Leq(m, b0)))
    /\ []((Bracketed /\ bret.kind = "return") =>
            (Leq(a0, bret.val) /\ Leq(bret.val, b0)))

\* two iterations in, both bounds have been replaced
C10_Witness ==
    /\ Bracketed /\ bpc = "loop" /\ it >= 2
    /\ a # a0 /\ b # b0

\* newton_raphson has ended
NewtonEnded == entry = "newton_raphson" /\ npc = "done"

\* C8: newton_raphson ends in one of three ways: it returns the first iterate
\* with |f(x)| < eps after 1..max_iter updates, without notification; or it
\* returns the iterate after exactly max_iter updates, none of which met eps,
\* with exactly one shortfall notification (x0 itself for max_iter = 0); or
\* df is zero at the current iterate and the ZeroDivisionError reaches the
\* caller with no value and no notification.  Every update is
\* x - f(x)/df(x).
C8_NewtonOutcomes ==
    (entry = "newton_raphson") =>
        /\ Len(xs) = nit + 1 /\ xs[nit + 1] = x0 /\ nit <= max_iter
        /\ \A j \in 1 .. nit :
            /\ DF(f, xs[j]) # Zero
            /\ xs[j + 1] = Sub(xs[j], Div(F(f, xs[j]), DF(f, xs[j])))
        /\ \A j \in 2 .. nit : ~Lt(AbsQ(F(f, xs[j])), eps)
        /\ npc = "loop" => nret = NoRet /\ cw = 0
        /\ npc = "done" =>
            \/ /\ nret = Return(x0) /\ cw = 0
               /\ nit >= 1 /\ Lt(AbsQ(F(f, x0)), eps)
            \/ /\ nret = Return(x0) /\ cw = 1
               /\ nit = max_iter
               /\ nit >= 1 => ~Lt(AbsQ(F(f, x0)), eps)
            \/ /\ nret = Raise("ZeroDivisionError") /\ cw = 0
               /\ nit < max_iter /\ DF(f, x0) = Zero

\* the division fault after one successful update
C8_Witness ==
    NewtonEnded /\ nret.kind = "ZeroDivisionError" /\ nit = 1

\* rootwalk has returned its list
RootwalkReturned ==
    entry = "rootwalk" /\ wpc = "done" /\ wret.kind = "return"

\* C3: when the bisect call of a sub-interval fails with the Asymptote
\* condition, rootwalk leaves i and r alone and ends the pass as a pass without
\* sign change does (return if i = n, else x += dx and on to the next
\* sub-interval); the condition never leaves rootwalk, and a scan that ends
\* short of n roots has tested all N sub-intervals.
C3_AsymtoteSwallowed ==
    /\ [][(wpc = "call" /\ bpc = "done" /\ bret.kind = "AsymtoteException") =>
            /\ i' = i /\ r' = r /\ found' = found /\ iw' = iw /\ cw' = cw
            /\ IF i = n
               THEN wpc' = "done" /\ wret' = Return(r) /\ x' = x /\ k' = k
               ELSE /\ wpc' = "loop" /\ wret' = NoRet
                    /\ x' = Add(x, dx) /\ k' = k + 1]_vars
    /\ [](wret.kind # "AsymtoteException")
    /\ []((RootwalkReturned /\ i < n) => (probes = N /\ k = N))

\* a scan that went to its end although one bisect call failed
C3_Witness ==
    /\ RootwalkReturned /\ i < n /\ probes = N
    /\ bcalls > Len(found)

\* C4: a scan that ends after N steps with i < n roots returns n entries, the
\* first i the collected values in scan order (ascending), the rest NaN, and
\* emits the incomplete-solution notification once; it is emitted in no other
\* case.
C4_PaddedAndNotified ==
    (entry = "rootwalk") =>
        /\ (RootwalkReturned /\ i < n) =>
            /\ Len(wret.val) = n /\ Len(found) = i
            /\ \A j \in 1 .. i : wret.val[j] = found[j] /\ wret.val[j] # NaN
            /\ \A j \in 1 .. i - 1 : Leq(wret.val[j], wret.val[j + 1])
            /\ \A j \in i + 1 .. n : wret.val[j] = NaN
            /\ iw = 1 /\ k = N
        /\ iw <= 1
        /\ iw = 1 => (RootwalkReturned /\ i < n /\ k = N)
        /\ (RootwalkReturned /\ i = n) => iw = 0

\* a partly filled result
C4_Witness == RootwalkReturned /\ 0 < i /\ i < n /\ iw = 1

\* C5: the pass in which i reaches n returns at once; after the return nothing
\* more happens (no evaluation of f, no bisect call); only the sub-intervals up
\* to that pass were tested; the list keeps length n and i never exceeds n.
C5_EarlyReturn ==
    /\ [][(entry = "rootwalk" /\ i # n /\ i' = n) =>
            (wpc' = "done" /\ wret' = Return(r') /\ probes' = k + 1 /\ k' = k)]_vars
    /\ [][wpc # "done"]_vars
    /\ [](wpc \in {"loop", "call", "done"} /\ wret.kind \in {"none", "return"} =>
            (Len(r) = n /\ i <= n /\ bcalls <= probes /\ probes <= k + 1))

\* the n-th root was found with sub-intervals left to scan
C5_Witness == RootwalkReturned /\ n >= 1 /\ i = n /\ k + 1 < N /\ probes = k + 1

\* C9 as stated: every entry of the returned list that is not NaN satisfies
\* |f(x)| < eps.
C9_AllEntriesConverged ==
    RootwalkReturned =>
        \A j \in 1 .. Len(wret.val) :
            wret.val[j] # NaN => Lt(AbsQ(F(f, wret.val[j])), eps)

\* C9 amended: the entries that are not NaN are the values bisect returned, in
\* the first i slots; each satisfies |f(x)| < eps unless bisect emitted a
\* shortfall notification for it: the entries that miss eps are as many as the
\* notifications emitted.
C9_EntriesConvergedOrWarned ==
    RootwalkReturned =>
        /\ \A j \in 1 .. Len(wret.val) : wret.val[j] # NaN <=> j <= i
        /\ Cardinality({j \in 1 .. i : ~Lt(AbsQ(F(f, wret.val[j])), eps)}) = cw

\* a returned list holding a best-effort value
C9_Witness ==
    /\ RootwalkReturned
    /\ \E j \in 1 .. i : ~Lt(AbsQ(F(f, wret.val[j])), eps)

====
